---- MODULE Spec2Model ----
(***************************************************************************)
(* Model of notebooks/audio_generator.py: the HealthEquityAudioGenerator   *)
(* class (construction, generate_spanish_audio, generate_tagalog_audio,    *)
(* generate_all_audio, generate_custom_audio), load_texts_from_file and    *)
(* the command line driver main().                                         *)
(*                                                                         *)
(* A text is a sequence of characters (one-character strings).  The        *)
(* external TTS engine is the environment: each tts_to_file call either    *)
(* writes the file, or raises and leaves no file, or raises and leaves a   *)
(* partially written file.                                                 *)
(***************************************************************************)
EXTENDS Integers, Sequences, FiniteSets, TLC

\* ------------------------------------------------------------------ bounds
\* Longest caller-supplied text list (command line or direct call).
MaxLen == 2
\* Most tts_to_file calls that raise in one run.
MaxFailures == 2
\* Longest file content enumerated for load_texts_from_file.
MaxContentLen == 4

\* ------------------------------------------------------- program constants
\* Minimum width of the index in f"{i:03d}".
IndexWidth == 3

Languages == {"spanish", "tagalog"}
OutputDir == "health_audio_output"

\* ------------------------------------------------------------ optional values
\* Python's None / a list, kept apart: None is [some |-> FALSE].
None == [some |-> FALSE, val |-> <<>>]
Some(l) == [some |-> TRUE, val |-> l]
\* Python truthiness of an Optional[List]: None and [] are both falsy.
Truthy(o) == o.some /\ o.val # <<>>

\* ------------------------------------------------------------ built-in lists
\* The ten built-in questions of each language; each is abstracted to a
\* one-symbol text that no caller-supplied text equals.
spanish_questions ==
  << <<"es01">>, <<"es02">>, <<"es03">>, <<"es04">>, <<"es05">>,
     <<"es06">>, <<"es07">>, <<"es08">>, <<"es09">>, <<"es10">> >>
tagalog_questions ==
  << <<"tl01">>, <<"tl02">>, <<"tl03">>, <<"tl04">>, <<"tl05">>,
     <<"tl06">>, <<"tl07">>, <<"tl08">>, <<"tl09">>, <<"tl10">> >>
DefaultQuestions(l) == IF l = "spanish" THEN spanish_questions ELSE tagalog_questions

\* speaker= argument of tts_to_file: "es" for Spanish, "en" for Tagalog.
Speaker(l) == IF l = "spanish" THEN "es" ELSE "en"

\* ------------------------------------------------------------ file names
RECURSIVE Digits(_)
\* Decimal digits of n >= 0, most significant first.
Digits(n) == IF n < 10 THEN <<n>> ELSE Digits(n \div 10) \o <<n % 10>>

RECURSIVE ZeroPad(_, _)
ZeroPad(d, w) == IF Len(d) >= w THEN d ELSE ZeroPad(<<0>> \o d, w)

\* Variant: the index counts from 0 (enumerate without start=1).
Format03dZeroBased(n) == ZeroPad(Digits(n - 1), IndexWidth)

\* f"{i:03d}"
Format03d(n) == ZeroPad(Digits(n), IndexWidth)

\* ------------------------------------------------------------ load_texts_from_file
Whitespace == {" ", "\t", "\n"}

RECURSIVE Split(_, _)
\* content.split(sep): always at least one piece.
Split(s, sep) ==
  IF \A p \in 1..Len(s) : s[p] # sep
  THEN << s >>
  ELSE LET p == CHOOSE q \in 1..Len(s) :
                  s[q] = sep /\ \A r \in 1..(q - 1) : s[r] # sep
       IN << SubSeq(s, 1, p - 1) >> \o Split(SubSeq(s, p + 1, Len(s)), sep)

RECURSIVE LStrip(_)
LStrip(s) == IF s # <<>> /\ Head(s) \in Whitespace THEN LStrip(Tail(s)) ELSE s
RECURSIVE RStrip(_)
RStrip(s) ==
  IF s # <<>> /\ s[Len(s)] \in Whitespace THEN RStrip(SubSeq(s, 1, Len(s) - 1)) ELSE s
\* line.strip()
Strip(s) == RStrip(LStrip(s))

RECURSIVE StripNonEmptyUnstripped(_)
\* Variant: [line for line in lines if line.strip()], the kept lines untrimmed.
StripNonEmptyUnstripped(lines) ==
  IF lines = <<>> THEN <<>>
  ELSE (IF Strip(Head(lines)) # <<>> THEN << Head(lines) >> ELSE <<>>)
       \o StripNonEmptyUnstripped(Tail(lines))

RECURSIVE StripNonEmpty(_)
\* [line.strip() for line in lines if line.strip()]
StripNonEmpty(lines) ==
  IF lines = <<>> THEN <<>>
  ELSE (IF Strip(Head(lines)) # <<>> THEN << Strip(Head(lines)) >> ELSE <<>>)
       \o StripNonEmpty(Tail(lines))

\* load_texts_from_file: a file is [readable, content]; any read error is
\* caught and answered with the empty list.
load_texts_from_file(file) ==
  IF file.readable THEN StripNonEmpty(Split(file.content, "\n")) ELSE <<>>

\* ------------------------------------------------------------ inputs
\* The n-th caller-supplied text: n characters "a".
CustomText(n) == [j \in 1..n |-> "a"]
\* A caller-supplied list of n texts.
CustomList(n) == [k \in 1..n |-> CustomText(k)]
\* Optional[List[str]] arguments of the generate_* methods: None, [] and
\* the non-empty lists up to MaxLen.
OptLists == {None} \cup {Some(CustomList(n)) : n \in 0..MaxLen}

\* Files a --spanish-file / --tagalog-file option can name.
NoPath == ""
Paths == {"missing.txt", "blank.txt", "lines.txt"}
FileSystem(p) ==
  CASE p = "missing.txt" -> [readable |-> FALSE, content |-> <<>>]
    [] p = "blank.txt"   -> [readable |-> TRUE, content |-> <<" ", "\n", "\n">>]
    [] OTHER             -> [readable |-> TRUE,
                             content |-> <<"a", "\n", "\n", " ", "a", "a", " ", "\n">>]

\* What the command line gives for one language: a file option (or none)
\* and a nargs='+' text list (or none; never an empty list).
SourceOptions ==
  {[file |-> NoPath, texts |-> None]}
    \cup {[file |-> p, texts |-> None] : p \in Paths}
    \cup {[file |-> NoPath, texts |-> Some(CustomList(n))] : n \in 1..MaxLen}

\* argparse namespace of main(); --languages is a non-empty list of choices.
MainArgs ==
  {[spanish_file |-> s.file, spanish_texts |-> s.texts,
    tagalog_file |-> t.file, tagalog_texts |-> t.texts, languages |-> ls] :
     s \in SourceOptions, t \in SourceOptions, ls \in (SUBSET Languages) \ {{}}}
DefaultArgs ==
  [spanish_file |-> NoPath, spanish_texts |-> None,
   tagalog_file |-> NoPath, tagalog_texts |-> None, languages |-> Languages]

\* A direct call of one public method of the generator.
ApiCalls ==
  {[op |-> "generate_spanish_audio", spanish |-> c, tagalog |-> None] : c \in OptLists}
    \cup {[op |-> "generate_tagalog_audio", spanish |-> None, tagalog |-> c] : c \in OptLists}
    \cup {[op |-> "generate_all_audio", spanish |-> None, tagalog |-> None]}
    \cup {[op |-> "generate_custom_audio", spanish |-> s, tagalog |-> t] :
            s \in OptLists, t \in OptLists}
NoCall == [op |-> "none", spanish |-> None, tagalog |-> None]

\* ------------------------------------------------------------ state
VARIABLES
  pc,               \* control location
  stack,            \* return continuations of the active calls
  entry,            \* "main" (command line run), "api" (direct calls), "load"
  args,             \* argparse namespace of main()
  call,             \* the direct call being made (entry = "api")
  pass,             \* 1: first time the call is made, 2: repeated
  generator,        \* "none" | "ready": the HealthEquityAudioGenerator object
  spanish_texts,    \* main(): local
  tagalog_texts,    \* main(): local
  custom,           \* generate_custom_audio: its two parameters
  results,          \* dict language -> list of paths (a function)
  lang,             \* generate_<lang>_audio being executed
  questions,        \* generate_*_audio: local
  i,                \* generate_*_audio: loop index
  generated_files,  \* generate_*_audio: local and return value
  call_errors,      \* logger.error lines of the current generate_*_audio call
  outcomes,         \* per language, whether each tts_to_file call of its latest
                    \* generate_*_audio call returned (TRUE) or raised (FALSE)
  requests,         \* every tts_to_file call made so far
  files,            \* files present in the output directory
  failures,         \* tts_to_file calls that raised so far
  exit_status,      \* [exited, code] of the process
  first,            \* what the first of two identical calls left behind
  file,             \* load_texts_from_file: the file read
  loaded            \* load_texts_from_file: [returned, texts]

vars == << pc, stack, entry, args, call, pass, generator, spanish_texts,
           tagalog_texts, custom, results, lang, questions, i, generated_files,
           call_errors, outcomes, requests, files, failures, exit_status, first, file, loaded >>

\* Variables of one generate_*_audio activation.
frame == << lang, questions, i, generated_files, call_errors, outcomes >>
\* Variables only tts_to_file touches.
world == << requests, files, failures >>
\* Variables fixed by Init or owned by main()/the caller.
setup == << entry, args, file, loaded >>

Running == [exited |-> FALSE, code |-> 0]
Exited(c) == [exited |-> TRUE, code |-> c]
NoFirst == [taken |-> FALSE, files |-> {}, generated_files |-> <<>>, requests |-> {}]
NoFile == [readable |-> FALSE, content |-> <<>>]
NotLoaded == [returned |-> FALSE, texts |-> <<>>]
EmptyDict == [l \in {} |-> <<>>]
\* results[k] = v on a dict
DictSet(d, k, v) == [x \in DOMAIN d \cup {k} |-> IF x = k THEN v ELSE d[x]]

Init ==
  /\ entry \in {"main", "api"}
  /\ args \in (IF entry = "main" THEN MainArgs ELSE {DefaultArgs})
  /\ pc = "init"
  /\ stack = <<>>
  /\ call = NoCall
  /\ pass = 1
  /\ generator = "none"
  /\ spanish_texts = None
  /\ tagalog_texts = None
  /\ custom = [spanish |-> None, tagalog |-> None]
  /\ results = EmptyDict
  /\ lang = "none"
  /\ questions = <<>>
  /\ i = 1
  /\ generated_files = <<>>
  /\ call_errors = {}
  /\ outcomes = [l \in Languages |-> <<>>]
  /\ requests = {}
  /\ files = {}
  /\ failures = 0
  /\ exit_status = Running
  /\ first = NoFirst
  /\ file = NoFile
  /\ loaded = NotLoaded

\* ------------------------------------------------------------ __init__
\* mkdir(exist_ok=True) may raise; TTS(...) may raise (logged and re-raised).
InitOutcomes == {"ok", "mkdir_failed", "tts_failed"}

\* Where an exception that leaves __init__ ends: main() catches it, logs it
\* and calls sys.exit(1); a direct caller's script dies with status 1.
InitFailureStatus == Exited(1)

\* HealthEquityAudioGenerator(output_dir): the constructor call, first
\* statement of main()'s try block and of any direct use.
GeneratorInit ==
  /\ pc = "init"
  /\ \E outcome \in InitOutcomes :
       IF outcome = "ok"
       THEN /\ generator' = "ready"
            /\ pc' = IF entry = "main" THEN "main_load" ELSE "api_call"
            /\ UNCHANGED exit_status
       ELSE /\ generator' = "none"
            /\ pc' = "done"
            /\ exit_status' = InitFailureStatus
  /\ UNCHANGED << stack, call, pass, spanish_texts, tagalog_texts, custom,
                  results, first >>
  /\ UNCHANGED << frame, world, setup >>

\* ------------------------------------------------------------ generate_*_audio
\* Variant: custom_questions if custom_questions is not None else the defaults.
QuestionsIfNotNone(l, c) == IF c.some THEN c.val ELSE DefaultQuestions(l)

\* questions = custom_questions if custom_questions else self.<lang>_questions
Questions(l, c) == IF Truthy(c) THEN c.val ELSE DefaultQuestions(l)

\* Entering generate_<l>_audio(c); ret is where the caller continues and
\* assign says whether the caller stores the return value in results[l].
CallGenerate(l, c, ret, assign) ==
  /\ lang' = l
  /\ questions' = Questions(l, c)
  /\ generated_files' = <<>>
  /\ i' = 1
  /\ call_errors' = {}
  /\ outcomes' = [outcomes EXCEPT ![l] = <<>>]
  /\ stack' = << [pc |-> ret, assign |-> assign] >> \o stack
  /\ pc' = "generate_loop"

\* Variant: the numbering goes on from one call to the next instead of
\* restarting at 1.
FilePathContinued(l, n) ==
  [dir |-> OutputDir, language |-> l,
   q |-> Format03d(n + (pass - 1) * Len(questions)), ext |-> "wav"]

\* str(self.output_dir / f"{language}_q{i:03d}.wav")
FilePath(l, n) ==
  [dir |-> OutputDir, language |-> l, q |-> Format03d(n), ext |-> "wav"]

\* The tts_to_file call of iteration i.
Request == [text |-> questions[i], speaker |-> Speaker(lang), file_path |-> FilePath(lang, i)]

\* Variant: the exception leaves the loop (try around the whole for loop).
AfterFailureAborts(k) == Len(questions) + 1

\* Loop position after an iteration whose tts_to_file call raised: the
\* except clause logs and the for loop goes on with the next item.
AfterFailure(k) == k + 1

\* One iteration whose tts_to_file call returns: the file is written and its
\* path appended.
GenerateItemOk ==
  /\ pc = "generate_loop"
  /\ i <= Len(questions)
  /\ requests' = requests \cup {Request}
  /\ files' = files \cup {FilePath(lang, i)}
  /\ generated_files' = Append(generated_files, FilePath(lang, i))
  /\ i' = i + 1
  /\ outcomes' = [outcomes EXCEPT ![lang] = Append(@, TRUE)]
  /\ UNCHANGED << pc, stack, call, pass, generator, spanish_texts, tagalog_texts,
                  custom, results, lang, questions, call_errors, failures,
                  exit_status, first >>
  /\ UNCHANGED setup

\* One iteration whose tts_to_file call raises: the error is logged with the
\* language and i; a partially written file may stay behind.
GenerateItemFail ==
  /\ pc = "generate_loop"
  /\ i <= Len(questions)
  /\ failures < MaxFailures
  /\ failures' = failures + 1
  /\ requests' = requests \cup {Request}
  /\ \E partial \in BOOLEAN :
       files' = IF partial THEN files \cup {FilePath(lang, i)} ELSE files
  /\ call_errors' = call_errors \cup {<< lang, i >>}
  /\ i' = AfterFailure(i)
  /\ outcomes' = [outcomes EXCEPT ![lang] = Append(@, FALSE)]
  /\ UNCHANGED << pc, stack, call, pass, generator, spanish_texts, tagalog_texts,
                  custom, results, lang, questions, generated_files,
                  exit_status, first >>
  /\ UNCHANGED setup

\* return generated_files, and the caller's results[lang] = ... if it has one.
GenerateReturn ==
  /\ pc = "generate_loop"
  /\ i > Len(questions)
  /\ pc' = Head(stack).pc
  /\ stack' = Tail(stack)
  /\ results' = IF Head(stack).assign
                THEN DictSet(results, lang, generated_files) ELSE results
  /\ UNCHANGED << call, pass, generator, spanish_texts, tagalog_texts, custom,
                  exit_status, first >>
  /\ UNCHANGED << frame, world, setup >>

\* ------------------------------------------------------------ generate_all_audio
\* results = {'spanish': [], 'tagalog': []}; results['spanish'] = generate_spanish_audio()
GenerateAllSpanish ==
  /\ pc = "all_enter"
  /\ results' = [l \in Languages |-> <<>>]
  /\ CallGenerate("spanish", None, "all_tagalog", TRUE)
  /\ UNCHANGED << call, pass, generator, spanish_texts, tagalog_texts, custom,
                  exit_status, first >>
  /\ UNCHANGED << world, setup >>

\* results['tagalog'] = generate_tagalog_audio()
GenerateAllTagalog ==
  /\ pc = "all_tagalog"
  /\ CallGenerate("tagalog", None, "dict_return", TRUE)
  /\ UNCHANGED << call, pass, generator, spanish_texts, tagalog_texts, custom,
                  results, exit_status, first >>
  /\ UNCHANGED << world, setup >>

\* return results (of generate_all_audio and of generate_custom_audio)
DictReturn ==
  /\ pc = "dict_return"
  /\ pc' = Head(stack).pc
  /\ stack' = Tail(stack)
  /\ UNCHANGED << call, pass, generator, spanish_texts, tagalog_texts, custom,
                  results, exit_status, first >>
  /\ UNCHANGED << frame, world, setup >>

\* ------------------------------------------------------------ generate_custom_audio
\* Variant: results = {}, keys added only for supplied languages.
CustomInitialResultsEmpty == EmptyDict

\* The dict generate_custom_audio starts from.
CustomInitialResults == [l \in Languages |-> <<>>]

\* Variant: the generate_*_audio calls are made unconditionally.
CustomSuppliedAlways(texts) == TRUE

\* if spanish_texts: / if tagalog_texts:
CustomSupplied(texts) == Truthy(texts)

\* results = {...}; if spanish_texts: results['spanish'] = generate_spanish_audio(spanish_texts)
GenerateCustomSpanish ==
  /\ pc = "custom_enter"
  /\ results' = CustomInitialResults
  /\ IF CustomSupplied(custom.spanish)
     THEN CallGenerate("spanish", custom.spanish, "custom_tagalog", TRUE)
     ELSE pc' = "custom_tagalog" /\ UNCHANGED stack /\ UNCHANGED frame
  /\ UNCHANGED << call, pass, generator, spanish_texts, tagalog_texts, custom,
                  exit_status, first >>
  /\ UNCHANGED << world, setup >>

\* if tagalog_texts: results['tagalog'] = generate_tagalog_audio(tagalog_texts)
GenerateCustomTagalog ==
  /\ pc = "custom_tagalog"
  /\ IF CustomSupplied(custom.tagalog)
     THEN CallGenerate("tagalog", custom.tagalog, "dict_return", TRUE)
     ELSE pc' = "dict_return" /\ UNCHANGED stack /\ UNCHANGED frame
  /\ UNCHANGED << call, pass, generator, spanish_texts, tagalog_texts, custom,
                  results, exit_status, first >>
  /\ UNCHANGED << world, setup >>

\* ------------------------------------------------------------ main
\* if args.<l>_file: load_texts_from_file(...) elif args.<l>_texts: args.<l>_texts
\* (else the local stays None)
MainTexts(path, texts) ==
  IF path # NoPath THEN Some(load_texts_from_file(FileSystem(path)))
  ELSE IF Truthy(texts) THEN texts
  ELSE None

\* Variant: if spanish_texts is not None or tagalog_texts is not None:
UseCustomIfNotNone(s, t) == s.some \/ t.some

\* if spanish_texts or tagalog_texts:
UseCustom(s, t) == Truthy(s) \/ Truthy(t)

\* Variant: the texts are passed on whatever --languages says.
FilterLanguageIgnored(l, texts) == texts

\* <l>_texts if '<l>' in args.languages else None
FilterLanguage(l, texts) == IF l \in args.languages THEN texts ELSE None

\* if '<l>' in args.languages:   (default branch)
DefaultSelected(l) == l \in args.languages

\* Variant: a run in which some item failed exits with status 1.
MainExitStatusStrict == IF failures > 0 THEN Exited(1) ELSE Exited(0)

\* Exit status when main() returns normally.
MainExitStatus == Exited(0)

\* "Determine what to generate": the two locals are set from the options.
MainLoadTexts ==
  /\ pc = "main_load"
  /\ spanish_texts' = MainTexts(args.spanish_file, args.spanish_texts)
  /\ tagalog_texts' = MainTexts(args.tagalog_file, args.tagalog_texts)
  /\ pc' = "main_branch"
  /\ UNCHANGED << stack, call, pass, generator, custom, results, exit_status, first >>
  /\ UNCHANGED << frame, world, setup >>

\* Custom texts provided: results = generator.generate_custom_audio(...)
MainCustom ==
  /\ pc = "main_branch"
  /\ UseCustom(spanish_texts, tagalog_texts)
  /\ custom' = [spanish |-> FilterLanguage("spanish", spanish_texts),
                tagalog |-> FilterLanguage("tagalog", tagalog_texts)]
  /\ stack' = << [pc |-> "main_print", assign |-> FALSE] >> \o stack
  /\ pc' = "custom_enter"
  /\ UNCHANGED << call, pass, generator, spanish_texts, tagalog_texts, results,
                  exit_status, first >>
  /\ UNCHANGED << frame, world, setup >>

\* Default branch: results = {}; if 'spanish' in args.languages: ...
MainDefaultSpanish ==
  /\ pc = "main_branch"
  /\ ~UseCustom(spanish_texts, tagalog_texts)
  /\ results' = EmptyDict
  /\ IF DefaultSelected("spanish")
     THEN CallGenerate("spanish", None, "default_tagalog", TRUE)
     ELSE pc' = "default_tagalog" /\ UNCHANGED stack /\ UNCHANGED frame
  /\ UNCHANGED << call, pass, generator, spanish_texts, tagalog_texts, custom,
                  exit_status, first >>
  /\ UNCHANGED << world, setup >>

\* if 'tagalog' in args.languages: results['tagalog'] = generate_tagalog_audio()
MainDefaultTagalog ==
  /\ pc = "default_tagalog"
  /\ IF DefaultSelected("tagalog")
     THEN CallGenerate("tagalog", None, "main_print", TRUE)
     ELSE pc' = "main_print" /\ UNCHANGED stack /\ UNCHANGED frame
  /\ UNCHANGED << call, pass, generator, spanish_texts, tagalog_texts, custom,
                  results, exit_status, first >>
  /\ UNCHANGED << world, setup >>

\* The results are printed and main() returns.
MainPrint ==
  /\ pc = "main_print"
  /\ exit_status' = MainExitStatus
  /\ pc' = "done"
  /\ UNCHANGED << stack, call, pass, generator, spanish_texts, tagalog_texts,
                  custom, results, first >>
  /\ UNCHANGED << frame, world, setup >>

\* ------------------------------------------------------------ direct calls
\* Entering the public method c.op with c's arguments.
Dispatch(c) ==
  CASE c.op = "generate_spanish_audio" ->
         /\ CallGenerate("spanish", c.spanish, "api_returned", FALSE)
         /\ UNCHANGED custom
    [] c.op = "generate_tagalog_audio" ->
         /\ CallGenerate("tagalog", c.tagalog, "api_returned", FALSE)
         /\ UNCHANGED custom
    [] c.op = "generate_all_audio" ->
         /\ pc' = "all_enter"
         /\ stack' = << [pc |-> "api_returned", assign |-> FALSE] >> \o stack
         /\ UNCHANGED custom
         /\ UNCHANGED frame
    [] OTHER ->
         /\ pc' = "custom_enter"
         /\ stack' = << [pc |-> "api_returned", assign |-> FALSE] >> \o stack
         /\ custom' = [spanish |-> c.spanish, tagalog |-> c.tagalog]
         /\ UNCHANGED frame

\* A caller holding a generator calls one of its public methods.
ApiCall ==
  /\ pc = "api_call"
  /\ \E c \in ApiCalls : call' = c /\ Dispatch(c)
  /\ UNCHANGED << pass, generator, spanish_texts, tagalog_texts, results,
                  exit_status, first >>
  /\ UNCHANGED << world, setup >>

\* The methods whose call the caller may repeat.
Repeatable == {"generate_spanish_audio", "generate_tagalog_audio", "generate_custom_audio"}

\* The caller makes the same call again, with the same arguments, on the
\* same generator (same output directory).
ApiRepeat ==
  /\ pc = "api_returned"
  /\ pass = 1
  /\ call.op \in Repeatable
  /\ pass' = 2
  /\ first' = [taken |-> TRUE, files |-> files,
               generated_files |-> generated_files, requests |-> requests]
  /\ Dispatch(call)
  /\ UNCHANGED << call, generator, spanish_texts, tagalog_texts, results, exit_status >>
  /\ UNCHANGED << world, setup >>

\* The caller's script ends.
ApiFinish ==
  /\ pc = "api_returned"
  /\ pc' = "done"
  /\ exit_status' = Exited(0)
  /\ UNCHANGED << stack, call, pass, generator, spanish_texts, tagalog_texts,
                  custom, results, first >>
  /\ UNCHANGED << frame, world, setup >>

\* ------------------------------------------------------------ specification
Next ==
  \/ GeneratorInit
  \/ GenerateItemOk
  \/ GenerateItemFail
  \/ GenerateReturn
  \/ GenerateAllSpanish
  \/ GenerateAllTagalog
  \/ DictReturn
  \/ GenerateCustomSpanish
  \/ GenerateCustomTagalog
  \/ MainLoadTexts
  \/ MainCustom
  \/ MainDefaultSpanish
  \/ MainDefaultTagalog
  \/ MainPrint
  \/ ApiCall
  \/ ApiRepeat
  \/ ApiFinish

Spec == Init /\ [][Next]_vars

\* ------------------------------------------------------------ load_texts_from_file alone
Alphabet == {"a", "b", " ", "\t", "\n"}
\* The file of the documented example: "a\n\nb\n  \nc\n".
ExampleContent == <<"a", "\n", "\n", "b", "\n", " ", " ", "\n", "c", "\n">>
Contents ==
  UNION {[1..n -> Alphabet] : n \in 0..MaxContentLen} \cup {ExampleContent}

InitLoad ==
  /\ entry = "load"
  /\ file \in {NoFile} \cup {[readable |-> TRUE, content |-> c] : c \in Contents}
  /\ pc = "load_call"
  /\ loaded = NotLoaded
  /\ args = DefaultArgs
  /\ stack = <<>>
  /\ call = NoCall
  /\ pass = 1
  /\ generator = "none"
  /\ spanish_texts = None
  /\ tagalog_texts = None
  /\ custom = [spanish |-> None, tagalog |-> None]
  /\ results = EmptyDict
  /\ lang = "none"
  /\ questions = <<>>
  /\ i = 1
  /\ generated_files = <<>>
  /\ call_errors = {}
  /\ outcomes = [l \in Languages |-> <<>>]
  /\ requests = {}
  /\ files = {}
  /\ failures = 0
  /\ exit_status = Running
  /\ first = NoFirst

\* texts = load_texts_from_file(path)
LoadTexts ==
  /\ pc = "load_call"
  /\ loaded' = [returned |-> TRUE, texts |-> load_texts_from_file(file)]
  /\ pc' = "done"
  /\ UNCHANGED << stack, entry, args, call, pass, generator, spanish_texts,
                  tagalog_texts, custom, results, exit_status, first, file >>
  /\ UNCHANGED << frame, world >>

NextLoad == LoadTexts

SpecLoad == InitLoad /\ [][NextLoad]_vars

\* ============================================================ properties
\* ------------------------------------------------------------ helpers
RECURSIVE Decode(_)
\* The number a sequence of decimal digits writes.
Decode(d) == IF d = <<>> THEN 0 ELSE 10 * Decode(SubSeq(d, 1, Len(d) - 1)) + d[Len(d)]

\* The k-th smallest element of a finite set of integers.
KthSmallest(S, k) == CHOOSE x \in S : Cardinality({y \in S : y < x}) = k - 1
\* The elements of a finite set of integers in increasing order.
Ascending(S) == [k \in 1..Cardinality(S) |-> KthSmallest(S, k)]

\* Positions of the items whose synthesis succeeded / failed.
Succeeded(outs) == {k \in 1..Len(outs) : outs[k]}
Failed(outs) == {k \in 1..Len(outs) : ~outs[k]}

\* The generate_*_audio loop has run to its end and is about to return.
LoopExit == pc = "generate_loop" /\ i > Len(questions)
LanguageOfSpeaker(sp) == IF sp = "es" THEN "spanish" ELSE "tagalog"
Names(reqs) == {r.file_path : r \in reqs}
DefaultTexts ==
  {spanish_questions[k] : k \in DOMAIN spanish_questions}
    \cup {tagalog_questions[k] : k \in DOMAIN tagalog_questions}
AbsentOrEmpty(d, l) == l \notin DOMAIN d \/ d[l] = <<>>
LocalTexts(l) == IF l = "spanish" THEN spanish_texts ELSE tagalog_texts
CallTexts(l) == IF l = "spanish" THEN call.spanish ELSE call.tagalog
ArgFile(l) == IF l = "spanish" THEN args.spanish_file ELSE args.tagalog_file
ArgTexts(l) == IF l = "spanish" THEN args.spanish_texts ELSE args.tagalog_texts

\* ------------------------------------------------------------ C1
\* C1: in generate_spanish_audio / generate_tagalog_audio the list built so
\* far is, at every moment, the paths of exactly the items whose synthesis
\* succeeded, in input order, and the failures logged are exactly the failed
\* positions with the language; when the loop ends every one of the N items
\* has been attempted, whatever failed before it.
C1_FailureIsolated ==
  pc = "generate_loop" =>
    LET outs == outcomes[lang]
        ok == Ascending(Succeeded(outs))
    IN /\ generated_files = [j \in 1..Len(ok) |-> FilePath(lang, ok[j])]
       /\ call_errors = {<< lang, k >> : k \in Failed(outs)}
       /\ i > Len(questions) =>
            /\ Len(outs) = Len(questions)
            /\ \A k \in 1..Len(questions) :
                 [text |-> questions[k], speaker |-> Speaker(lang),
                  file_path |-> FilePath(lang, k)] \in requests

\* A batch of at least five items where item 3 failed and 1, 2, 4, 5 succeeded.
C1_Witness ==
  /\ LoopExit
  /\ Len(questions) >= 5
  /\ Len(outcomes[lang]) >= 5
  /\ ~outcomes[lang][3]
  /\ \A k \in {1, 2, 4, 5} : outcomes[lang][k]
  /\ Len(generated_files) = Len(questions) - 1

\* ------------------------------------------------------------ C2
\* C2: a generate call over N items yields at most N paths; the j-th path is
\* "<language>_q<index>.wav" in the output directory, its index written with
\* at least three digits (zero padded) and equal to the 1-based position of
\* the j-th successful item; the paths of one call are pairwise distinct,
\* and no two different synthesis requests (of either language) ever name
\* the same file.
C2_IndexedNames ==
  /\ pc = "generate_loop" =>
       LET ok == Ascending(Succeeded(outcomes[lang]))
       IN /\ Len(generated_files) <= Len(questions)
          /\ Len(generated_files) = Len(ok)
          /\ \A j \in 1..Len(generated_files) :
               LET p == generated_files[j]
               IN /\ p.dir = OutputDir /\ p.language = lang /\ p.ext = "wav"
                  /\ Len(p.q) >= 3
                  /\ Len(p.q) > 3 => p.q[1] # 0
                  /\ \A x \in 1..Len(p.q) : p.q[x] \in 0..9
                  /\ Decode(p.q) = ok[j]
                  /\ ok[j] \in 1..Len(questions)
          /\ \A j1, j2 \in 1..Len(generated_files) :
               j1 # j2 => generated_files[j1] # generated_files[j2]
  /\ \A r1, r2 \in requests : r1.file_path = r2.file_path => r1 = r2
  /\ \A r \in requests : r.file_path.language = LanguageOfSpeaker(r.speaker)

\* The Tagalog batch of ten ends with all ten files, after Spanish files
\* were requested in the same run.
C2_Witness ==
  /\ LoopExit
  /\ lang = "tagalog"
  /\ Len(generated_files) = 10
  /\ \E r \in requests : r.speaker = "es"

\* ------------------------------------------------------------ C3
\* C3: a run of main() ends with exit code 0 whenever the generator was
\* constructed, whatever items failed, and with a non-zero code when
\* construction failed; in that case nothing is ever synthesized or written.
C3_ExitCode ==
  entry = "main" =>
    /\ generator = "none" => requests = {} /\ files = {}
    /\ exit_status.exited <=> pc = "done"
    /\ pc = "done" =>
         /\ generator = "ready" => exit_status.code = 0
         /\ generator = "none" => exit_status.code # 0

\* main() has ended after every item it tried failed to synthesize.
C3_Witness ==
  /\ entry = "main"
  /\ pc = "done"
  /\ generator = "ready"
  /\ requests # {}
  /\ failures = Cardinality(requests)
  /\ \A l \in DOMAIN results : results[l] = <<>>

\* ------------------------------------------------------------ C4
\* C4: in a run of main(), every synthesis request and every file written
\* belongs to a language of the --languages selection, and the result of a
\* language outside the selection is absent or empty.
C4_LanguageFilter ==
  entry = "main" =>
    /\ \A r \in requests :
         /\ r.file_path.language \in args.languages
         /\ LanguageOfSpeaker(r.speaker) \in args.languages
    /\ \A f \in files : f.language \in args.languages
    /\ \A l \in Languages \ args.languages :
         AbsentOrEmpty(results, l) /\ outcomes[l] = <<>>

\* Only Tagalog is selected although Spanish text was supplied, and Tagalog
\* files were written.
C4_Witness ==
  /\ entry = "main"
  /\ pc = "done"
  /\ args.languages = {"tagalog"}
  /\ Truthy(args.spanish_texts)
  /\ Truthy(spanish_texts)
  /\ files # {}

\* ------------------------------------------------------------ C5
\* generate_custom_audio has been called: by main() (custom branch) or directly.
CustomCalled ==
  \/ /\ entry = "main"
     /\ pc \notin {"init", "main_load", "main_branch"}
     /\ Truthy(spanish_texts) \/ Truthy(tagalog_texts)
  \/ entry = "api" /\ call.op = "generate_custom_audio"
\* No (non-empty) text was supplied for language l.
Omitted(l) == IF entry = "main" THEN ~Truthy(LocalTexts(l)) ELSE ~Truthy(CallTexts(l))
CustomReturned == pc \in {"main_print", "api_returned", "done"}

\* C5: once generate_custom_audio is called, no built-in default text is
\* ever synthesized; a language without supplied text gets no synthesis
\* request and no file, and its entry in the returned dict is absent or empty.
C5_OmittedNotDefaulted ==
  CustomCalled =>
    /\ \A r \in requests : r.text \notin DefaultTexts
    /\ \A l \in Languages :
         Omitted(l) =>
           /\ \A r \in requests : r.file_path.language # l
           /\ \A f \in files : f.language # l
           /\ CustomReturned => AbsentOrEmpty(results, l)

\* main() ran with Spanish text only, Tagalog selected but omitted, and
\* produced Spanish results.
C5_Witness ==
  /\ entry = "main"
  /\ pc = "done"
  /\ Truthy(spanish_texts)
  /\ ~Truthy(tagalog_texts)
  /\ "tagalog" \in args.languages
  /\ "spanish" \in DOMAIN results
  /\ results["spanish"] # <<>>

\* ------------------------------------------------------------ C6
\* The lines of a file content and their trimmed texts, by positions: a line
\* starts at 1 or after a newline and ends before the next newline.
White == {" ", "\t", "\n"}
LineStarts(c) == {b \in 1..(Len(c) + 1) : b = 1 \/ c[b - 1] = "\n"}
LineEnd(c, b) ==
  CHOOSE e \in b..(Len(c) + 1) :
    /\ e = Len(c) + 1 \/ c[e] = "\n"
    /\ \A x \in b..(e - 1) : c[x] # "\n"
\* Positions of the line's characters that are not whitespace.
Ink(c, b) == {x \in b..(LineEnd(c, b) - 1) : c[x] \notin White}
KeptStarts(c) == {b \in LineStarts(c) : Ink(c, b) # {}}
Trimmed(c, b) ==
  LET lo == CHOOSE x \in Ink(c, b) : \A y \in Ink(c, b) : x <= y
      hi == CHOOSE x \in Ink(c, b) : \A y \in Ink(c, b) : x >= y
  IN SubSeq(c, lo, hi)
ExpectedTexts(c) ==
  LET starts == Ascending(KeptStarts(c))
  IN [k \in 1..Len(starts) |-> Trimmed(c, starts[k])]

\* C6: load_texts_from_file on a readable file returns, in file order,
\* exactly the lines that are non-empty after trimming, each trimmed; the
\* example "a\n\nb\n  \nc\n" gives ["a", "b", "c"].
C6_LoadTexts ==
  (entry = "load" /\ loaded.returned /\ file.readable) =>
    /\ loaded.texts = ExpectedTexts(file.content)
    /\ file.content = ExampleContent => loaded.texts = << <<"a">>, <<"b">>, <<"c">> >>

\* The documented example has been loaded.
C6_Witness ==
  /\ entry = "load"
  /\ loaded.returned
  /\ file.readable
  /\ file.content = ExampleContent
  /\ Len(loaded.texts) = 3

\* ------------------------------------------------------------ C7
\* The same direct call has been made twice and the second has returned.
SecondReturned == entry = "api" /\ pass = 2 /\ pc = "api_returned"

\* C7 as stated: after the second of two identical calls the output
\* directory holds the same set of files as after the first.
C7_SameFilesAfterSecondCall == SecondReturned => files = first.files

\* C7 amended: the second call requests no file name the first did not
\* request; the directory keeps every file the first call left and holds
\* no file outside the names the first call requested.
C7_SameNamesNoAccumulation ==
  (entry = "api" /\ pass = 2) =>
    /\ Names(requests) = Names(first.requests)
    /\ first.files \subseteq files
    /\ files \subseteq Names(first.requests)

\* Two identical non-empty custom Spanish calls, every item written both times.
C7_Witness ==
  /\ SecondReturned
  /\ call.op = "generate_spanish_audio"
  /\ Truthy(call.spanish)
  /\ Len(first.generated_files) = Len(call.spanish.val)
  /\ Len(generated_files) = Len(call.spanish.val)
  /\ files = first.files

\* ------------------------------------------------------------ C8
\* Text was supplied for l and every item of it failed to synthesize.
AllFailed(l) ==
  /\ Truthy(CallTexts(l))
  /\ Len(outcomes[l]) = Len(CallTexts(l).val)
  /\ Succeeded(outcomes[l]) = {}

\* C8: when generate_custom_audio returns, a language for which no text was
\* supplied and a language whose supplied items all failed both have the
\* same value under their key: the empty list.
C8_SuccessesOnly ==
  (entry = "api" /\ call.op = "generate_custom_audio" /\ pc = "api_returned") =>
    \A l \in Languages :
      (~CallTexts(l).some \/ AllFailed(l)) => (l \in DOMAIN results /\ results[l] = <<>>)

\* One language had all its supplied items fail, the other had no text.
C8_Witness ==
  /\ entry = "api"
  /\ call.op = "generate_custom_audio"
  /\ pc = "api_returned"
  /\ AllFailed("spanish")
  /\ ~call.tagalog.some

\* ------------------------------------------------------------ C9
DirectLanguage == IF call.op = "generate_spanish_audio" THEN "spanish" ELSE "tagalog"
DirectGenerate ==
  entry = "api" /\ call.op \in {"generate_spanish_audio", "generate_tagalog_audio"}

\* C9: a direct generate_spanish_audio / generate_tagalog_audio call given
\* an empty list works on the ten built-in questions of the language, as a
\* call given no list does, and attempts all ten.
C9_EmptyListIsDefault ==
  (DirectGenerate /\ ~Truthy(CallTexts(DirectLanguage))) =>
    /\ pc = "generate_loop" =>
         questions = DefaultQuestions(DirectLanguage) /\ Len(questions) = 10
    /\ pc = "api_returned" =>
         /\ Len(outcomes[DirectLanguage]) = 10
         /\ \A t \in {DefaultQuestions(DirectLanguage)[k] : k \in 1..10} :
              \E r \in requests : r.text = t

\* generate_spanish_audio([]) has returned ten paths.
C9_Witness ==
  /\ entry = "api"
  /\ call.op = "generate_spanish_audio"
  /\ call.spanish = Some(<<>>)
  /\ pc = "api_returned"
  /\ Len(generated_files) = 10

\* ------------------------------------------------------------ C10
\* A file is named for l and holds no text (unreadable or blank).
EmptyFileNamed(l) ==
  /\ ArgFile(l) # NoPath
  /\ LET f == FileSystem(ArgFile(l))
     IN ~f.readable \/ \A x \in 1..Len(f.content) : f.content[x] \in White
\* Neither a file nor texts are given for l.
NothingGiven(l) == ArgFile(l) = NoPath /\ ~Truthy(ArgTexts(l))

\* C10: in main(), loading an unreadable or blank file gives the empty list
\* (no exception); when a language's file yields no text and the other
\* language has no text either, the run synthesizes the complete built-in
\* list of every selected language and exits 0.
C10_EmptyFileFallsBackToDefaults ==
  (entry = "main" /\ generator = "ready" /\ pc # "main_load") =>
    /\ \A l \in Languages : EmptyFileNamed(l) => LocalTexts(l) = Some(<<>>)
    /\ ( /\ pc = "done"
         /\ \E l \in Languages : EmptyFileNamed(l)
         /\ \A l \in Languages : EmptyFileNamed(l) \/ NothingGiven(l) ) =>
           /\ exit_status.code = 0
           /\ \A l \in args.languages :
                /\ l \in DOMAIN results
                /\ Len(outcomes[l]) = 10
                /\ \A k \in 1..10 :
                     \E r \in requests :
                       r.text = DefaultQuestions(l)[k] /\ r.file_path.language = l

\* --spanish-file names a missing file, nothing is given for Tagalog, both
\* languages are selected: twenty default items were requested.
C10_Witness ==
  /\ entry = "main"
  /\ pc = "done"
  /\ args.spanish_file = "missing.txt"
  /\ NothingGiven("tagalog")
  /\ args.languages = Languages
  /\ Cardinality(requests) = 20
  /\ exit_status.code = 0

====
